---- MODULE Spec2Model ----
(***************************************************************************)
(* The checkers rules engine of src/checkers_game.py (class CheckersGame)  *)
(* as a state machine, with the rooms of src/game_rooms.py, the move       *)
(* endpoint of src/web_server.py and the chat handlers of src/bot.py that  *)
(* drive it.  The state of a game is the 8x8 board, the side to move, the  *)
(* game-over flag and the winner.  The one mutating operation is           *)
(* make_move; get_piece and get_valid_moves are reads.                     *)
(*                                                                         *)
(* Spec: every game starts from the opening layout.  The environment       *)
(* replays one of four recorded games (LineA..LineD: move lists accepted   *)
(* by the engine) and may leave the recorded game at any point: at most    *)
(* MaxDev accepted moves are made off the record, and at every position of *)
(* the record any call whose arguments are in ProbeCalls (on- and          *)
(* off-board coordinates) is tried.                                        *)
(* SpecReads: the recorded games with get_piece and get_valid_moves called *)
(* between the moves.                                                      *)
(* SpecParse: parse_move on texts.                                         *)
(* SpecRooms: rooms and chats, each with a game object of its own.         *)
(* SpecConcurrent: move requests to one room or chat handled concurrently. *)
(* SpecPlay: a recorded game down to three pieces, then every move the     *)
(* engine accepts, for as long as it accepts one.                          *)
(***************************************************************************)
EXTENDS Integers, Sequences, FiniteSets, TLC

\* class Piece(Enum): the five cell values, by name.
Piece == {"EMPTY", "RED", "RED_KING", "BLACK", "BLACK_KING"}

\* CheckersGame.BOARD_SIZE
BOARD_SIZE == 8

\* The number of accepted moves a run may make off its recorded game.
MaxDev == 2

\* How many times in a row the same read is made.
MaxReads == 2

\* How long a typed text gets.
MaxLen == 7

\* How many rooms are created and how many chats write to the bot.
MaxRooms == 2

MaxChats == 1

\* How many move requests to one session are handled at the same time.
MaxInFlight == 2

Rows == 0..(BOARD_SIZE - 1)

\* Coordinates offered to make_move: the board and one step off each edge.
Coord == (-1)..BOARD_SIZE

RedPieces == {"RED", "RED_KING"}

BlackPieces == {"BLACK", "BLACK_KING"}

Kings == {"RED_KING", "BLACK_KING"}

Abs(x) == IF x < 0 THEN -x ELSE x

\* The members of a Python list, for the `in` test.
Elems(s) == {s[i] : i \in 1..Len(s)}

\* F(v), with v worked out once however often F uses it.
Once(v, F(_)) == CHOOSE r \in {F(x) : x \in {v}} : TRUE

VARIABLES
    board,           \* self.board: board[row][col] \in Piece
    current_player,  \* self.current_player: "RED" or "BLACK"
    game_over,       \* self.game_over
    winner,          \* self.winner: "None", "RED" or "BLACK"
    call,            \* <<>> before any call, else <<the last make_move call>>:
                     \* its arguments, the piece it found on the from-cell
                     \* and its return value
    line,            \* the recorded game this run replays
    ply,             \* how many moves of the recorded game have been replayed
    dev,             \* how many accepted moves were made off the record
    streak,          \* how many accepted moves in a row, up to the last one,
                     \* have left current_player as it was
    read,            \* <<>> after construction and after an accepted move,
                     \* else <<the last get_piece or get_valid_moves call>>:
                     \* its arguments, its result and how many times it has
                     \* been made in a row
    text,            \* the move_str of the last parse_move call, a sequence
                     \* of one-character strings
    parsed,          \* what that call returned: None or the 4-tuple
    rooms,           \* game_rooms.rooms: room id -> GameRoom, its game field
                     \* holding the reference of the game object
    games,           \* bot.games: chat id -> reference of the game object
    objs,            \* the live CheckersGame objects: reference -> fields
    last,            \* <<>> or <<the last operation on a room or a chat>>:
                     \* the session it addressed and what it answered
    requests,        \* the move requests being handled concurrently, each
                     \* with the position of its handler
    base             \* <<>> or <<games, objs>> as they were when the
                     \* requests arrived

game == <<board, current_player, game_over, winner>>

vars == <<board, current_player, game_over, winner, call, line, ply, dev,
          streak, read, text, parsed, rooms, games, objs, last, requests, base>>

parse_vars == <<text, parsed>>

session_vars == <<rooms, games, objs, last>>

request_vars == <<requests, base>>

(***************************************************************************)
(* The engine.                                                             *)
(***************************************************************************)

\* _initialize_board filling a fourth row with Black men.
_initialize_board_with_a_fourth_row ==
    [row \in Rows |-> [col \in Rows |->
        IF row \in 0..3 /\ (row + col) % 2 = 1 THEN "BLACK"
        ELSE IF row \in 5..7 /\ (row + col) % 2 = 1 THEN "RED"
        ELSE "EMPTY"]]

\* _initialize_board on the all-EMPTY board of __init__.
_initialize_board ==
    [row \in Rows |-> [col \in Rows |->
        IF row \in 0..2 /\ (row + col) % 2 = 1 THEN "BLACK"
        ELSE IF row \in 5..7 /\ (row + col) % 2 = 1 THEN "RED"
        ELSE "EMPTY"]]

is_valid_position(row, col) ==
    0 <= row /\ row < BOARD_SIZE /\ 0 <= col /\ col < BOARD_SIZE

is_valid_square(row, col) == (row + col) % 2 = 1

get_piece(b, row, col) ==
    IF ~is_valid_position(row, col) THEN "EMPTY" ELSE b[row][col]

\* The direction list of a king given to every piece.
directions_of_a_king_for_all(is_king, is_red) ==
    << <<-1, -1>>, <<-1, 1>>, <<1, -1>>, <<1, 1>> >>

\* The direction list with a straight step forward in place of a diagonal one.
directions_with_a_straight_step(is_king, is_red) ==
    (IF is_king \/ is_red THEN << <<-1, 0>>, <<-1, 1>> >> ELSE << >>)
    \o (IF is_king \/ ~is_red THEN << <<1, -1>>, <<1, 1>> >> ELSE << >>)

\* The direction list built in get_valid_moves and again in _get_jump_moves.
directions(is_king, is_red) ==
    (IF is_king \/ is_red THEN << <<-1, -1>>, <<-1, 1>> >> ELSE << >>)
    \o (IF is_king \/ ~is_red THEN << <<1, -1>>, <<1, 1>> >> ELSE << >>)

_get_jump_moves(b, row, col, piece, is_king, is_red) ==
    LET CanJump(d) ==
            LET jumped_piece == get_piece(b, row + d[1], col + d[2])
                land_piece == get_piece(b, row + 2 * d[1], col + 2 * d[2])
            IN  /\ is_valid_position(row + 2 * d[1], col + 2 * d[2])
                /\ land_piece = "EMPTY"
                /\ IF is_red THEN jumped_piece \in BlackPieces
                             ELSE jumped_piece \in RedPieces
        taken == SelectSeq(directions(is_king, is_red), CanJump)
    IN  [i \in 1..Len(taken) |-> <<row + 2 * taken[i][1], col + 2 * taken[i][2]>>]

\* get_valid_moves with the jumps appended to the steps instead of replacing
\* them.
get_valid_moves_keeping_steps(b, cp, row, col) ==
    LET piece == get_piece(b, row, col)
        is_king == piece \in Kings
        is_red == piece \in RedPieces
        Free(d) == /\ is_valid_position(row + d[1], col + d[2])
                   /\ get_piece(b, row + d[1], col + d[2]) = "EMPTY"
        steps == SelectSeq(directions(is_king, is_red), Free)
        moves == [i \in 1..Len(steps) |-> <<row + steps[i][1], col + steps[i][2]>>]
    IN  IF piece = "EMPTY" THEN << >>
        ELSE IF piece \notin RedPieces /\ cp = "RED" THEN << >>
        ELSE IF piece \notin BlackPieces /\ cp = "BLACK" THEN << >>
        ELSE moves \o _get_jump_moves(b, row, col, piece, is_king, is_red)

get_valid_moves(b, cp, row, col) ==
    LET piece == get_piece(b, row, col)
        is_king == piece \in Kings
        is_red == piece \in RedPieces
        Free(d) == /\ is_valid_position(row + d[1], col + d[2])
                   /\ get_piece(b, row + d[1], col + d[2]) = "EMPTY"
        steps == SelectSeq(directions(is_king, is_red), Free)
        moves == [i \in 1..Len(steps) |-> <<row + steps[i][1], col + steps[i][2]>>]
        jump_moves == _get_jump_moves(b, row, col, piece, is_king, is_red)
    IN  IF piece = "EMPTY" THEN << >>
        ELSE IF piece \notin RedPieces /\ cp = "RED" THEN << >>
        ELSE IF piece \notin BlackPieces /\ cp = "BLACK" THEN << >>
        ELSE IF jump_moves # << >> THEN jump_moves
        ELSE moves

_has_jumps(b, row, col) ==
    LET piece == get_piece(b, row, col)
    IN  IF piece = "EMPTY" THEN FALSE
        ELSE Len(_get_jump_moves(b, row, col, piece,
                                piece \in Kings, piece \in RedPieces)) > 0

\* _check_game_over without the piece counts: only a side with no move ends
\* the game.
_check_game_over_without_counts(b, cp, go, w) ==
    IF \E row \in Rows, col \in Rows : get_valid_moves(b, cp, row, col) # << >>
    THEN [game_over |-> go, winner |-> w]
    ELSE [game_over |-> TRUE, winner |-> IF cp = "RED" THEN "BLACK" ELSE "RED"]

\* _check_game_over that ends the game of a side with no move but names no
\* winner for it.
_check_game_over_without_winner(b, cp, go, w) ==
    LET red_pieces == Cardinality({p \in Rows \X Rows : b[p[1]][p[2]] \in RedPieces})
        black_pieces == Cardinality({p \in Rows \X Rows : b[p[1]][p[2]] \in BlackPieces})
    IN  IF red_pieces = 0 THEN [game_over |-> TRUE, winner |-> "BLACK"]
        ELSE IF black_pieces = 0 THEN [game_over |-> TRUE, winner |-> "RED"]
        ELSE IF \E row \in Rows, col \in Rows : get_valid_moves(b, cp, row, col) # << >>
        THEN [game_over |-> go, winner |-> w]
        ELSE [game_over |-> TRUE, winner |-> w]

\* _check_game_over: the new (game_over, winner), computed on the board after
\* the move and with the side that has just moved still in current_player.
_check_game_over(b, cp, go, w) ==
    LET red_pieces == Cardinality({p \in Rows \X Rows : b[p[1]][p[2]] \in RedPieces})
        black_pieces == Cardinality({p \in Rows \X Rows : b[p[1]][p[2]] \in BlackPieces})
        go1 == IF red_pieces = 0 \/ black_pieces = 0 THEN TRUE ELSE go
        w1 == IF red_pieces = 0 THEN "BLACK"
              ELSE IF black_pieces = 0 THEN "RED"
              ELSE w
        has_moves ==
            \E row \in Rows, col \in Rows :
                /\ \/ cp = "RED" /\ get_piece(b, row, col) \in RedPieces
                   \/ cp = "BLACK" /\ get_piece(b, row, col) \in BlackPieces
                /\ get_valid_moves(b, cp, row, col) # << >>
    IN  IF ~has_moves /\ ~go1
        THEN [game_over |-> TRUE, winner |-> IF cp = "RED" THEN "BLACK" ELSE "RED"]
        ELSE [game_over |-> go1, winner |-> w1]

\* The early returns of make_move without the game_over test.
move_refused_by_target_only(b, cp, go, from_row, from_col, to_row, to_col) ==
    <<to_row, to_col>> \notin Elems(get_valid_moves(b, cp, from_row, from_col))

\* make_move, lines 134-139: the two early returns.  TRUE when the call is
\* refused: the game is over, or the target is not a valid move of the cell.
move_refused(b, cp, go, from_row, from_col, to_row, to_col) ==
    IF go THEN TRUE
    ELSE <<to_row, to_col>> \notin Elems(get_valid_moves(b, cp, from_row, from_col))

\* The promotion test with the last row taken one past the board for Black.
promoted_past_the_board(piece, to_row) ==
    IF piece = "RED" /\ to_row = 0 THEN "RED_KING"
    ELSE IF piece = "BLACK" /\ to_row = BOARD_SIZE THEN "BLACK_KING"
    ELSE piece

\* make_move, lines 153-156: the piece as it is put down on to_row.
promoted(piece, to_row) ==
    IF piece = "RED" /\ to_row = 0 THEN "RED_KING"
    ELSE IF piece = "BLACK" /\ to_row = BOARD_SIZE - 1 THEN "BLACK_KING"
    ELSE piece

\* The board after an accepted move, with the jumped piece left on its cell.
moved_board_keeping_the_jumped_piece(b, from_row, from_col, to_row, to_col) ==
    LET piece == b[from_row][from_col]
        b1 == [b EXCEPT ![from_row][from_col] = "EMPTY"]
    IN  [b1 EXCEPT ![to_row][to_col] = promoted(piece, to_row)]

\* The board after an accepted move, with the from-cell left as it was.
moved_board_keeping_the_from_cell(b, from_row, from_col, to_row, to_col) ==
    LET piece == b[from_row][from_col]
        row_diff == Abs(to_row - from_row)
        jumped_row == (from_row + to_row) \div 2
        jumped_col == (from_col + to_col) \div 2
        b2 == IF row_diff = 2 THEN [b EXCEPT ![jumped_row][jumped_col] = "EMPTY"]
              ELSE b
    IN  [b2 EXCEPT ![to_row][to_col] = promoted(piece, to_row)]

\* make_move, lines 141-158: the board after an accepted move.
moved_board(b, from_row, from_col, to_row, to_col) ==
    LET piece == b[from_row][from_col]
        b1 == [b EXCEPT ![from_row][from_col] = "EMPTY"]
        row_diff == Abs(to_row - from_row)
        jumped_row == (from_row + to_row) \div 2
        jumped_col == (from_col + to_col) \div 2
        b2 == IF row_diff = 2 THEN [b1 EXCEPT ![jumped_row][jumped_col] = "EMPTY"]
              ELSE b1
    IN  [b2 EXCEPT ![to_row][to_col] = promoted(piece, to_row)]

\* No turn switch at all: the side that has moved stays to move.
next_player_keeping_the_turn(b, cp, from_row, to_row, to_col) == cp

\* The turn switch without the test for further jumps.
next_player_always_switching(b, cp, from_row, to_row, to_col) ==
    IF cp = "RED" THEN "BLACK" ELSE "RED"

\* The turn switch with the test for further jumps made for a man, as if
\* the piece were put down before it is crowned.
next_player_testing_jumps_as_a_man(b, cp, from_row, to_row, to_col) ==
    IF \/ Abs(to_row - from_row) # 2
       \/ _get_jump_moves(b, to_row, to_col, get_piece(b, to_row, to_col),
                          FALSE, cp = "RED") = << >>
    THEN (IF cp = "RED" THEN "BLACK" ELSE "RED")
    ELSE cp

\* make_move, lines 163-165: the side to move after an accepted move, on the
\* board b the move has left.
next_player(b, cp, from_row, to_row, to_col) ==
    IF Abs(to_row - from_row) # 2 \/ ~_has_jumps(b, to_row, to_col)
    THEN (IF cp = "RED" THEN "BLACK" ELSE "RED")
    ELSE cp

\* make_move as a function of the state and the arguments: the return value
\* and the state it leaves.
make_move(b, cp, go, w, from_row, from_col, to_row, to_col) ==
    IF move_refused(b, cp, go, from_row, from_col, to_row, to_col)
    THEN [ret |-> FALSE, board |-> b, current_player |-> cp,
          game_over |-> go, winner |-> w]
    ELSE LET b3 == moved_board(b, from_row, from_col, to_row, to_col)
             over == _check_game_over(b3, cp, go, w)
         IN  [ret |-> TRUE, board |-> b3,
              current_player |-> next_player(b3, cp, from_row, to_row, to_col),
              game_over |-> over.game_over, winner |-> over.winner]

\* A call of get_piece as a function of the state and the arguments: the
\* return value and the state it leaves.
call_get_piece(b, cp, go, w, row, col) ==
    [ret |-> get_piece(b, row, col), board |-> b, current_player |-> cp,
     game_over |-> go, winner |-> w]

\* A call of get_valid_moves with a side effect: it leaves the turn with the
\* owner of the piece it was asked about.
call_get_valid_moves_taking_the_turn(b, cp, go, w, row, col) ==
    [ret |-> get_valid_moves(b, cp, row, col), board |-> b,
     current_player |-> IF get_piece(b, row, col) \in BlackPieces THEN "BLACK"
                        ELSE IF get_piece(b, row, col) \in RedPieces THEN "RED"
                        ELSE cp,
     game_over |-> go, winner |-> w]

\* A call of get_valid_moves, likewise.
call_get_valid_moves(b, cp, go, w, row, col) ==
    [ret |-> get_valid_moves(b, cp, row, col), board |-> b,
     current_player |-> cp, game_over |-> go, winner |-> w]

(***************************************************************************)
(* parse_move.  A str is a sequence of one-character strings over the      *)
(* printable ASCII characters other than the grave accent.                 *)
(***************************************************************************)

\* The characters with code points 32..95, in order.
ASCII ==
    << " ", "!", "\"", "#", "$", "%", "&", "'", "(", ")", "*", "+", ",", "-",
       ".", "/", "0", "1", "2", "3", "4", "5", "6", "7", "8", "9", ":", ";",
       "<", "=", ">", "?", "@", "A", "B", "C", "D", "E", "F", "G", "H", "I",
       "J", "K", "L", "M", "N", "O", "P", "Q", "R", "S", "T", "U", "V", "W",
       "X", "Y", "Z", "[", "\\", "]", "^", "_" >>

\* The characters with code points 97..126, in order.
ASCII_from_a ==
    << "a", "b", "c", "d", "e", "f", "g", "h", "i", "j", "k", "l", "m", "n",
       "o", "p", "q", "r", "s", "t", "u", "v", "w", "x", "y", "z", "{", "|",
       "}", "~" >>

ord(c) ==
    IF c \in Elems(ASCII)
    THEN 31 + (CHOOSE i \in 1..Len(ASCII) : ASCII[i] = c)
    ELSE 96 + (CHOOSE i \in 1..Len(ASCII_from_a) : ASCII_from_a[i] = c)

chr(n) == IF n < 96 THEN ASCII[n - 31] ELSE ASCII_from_a[n - 96]

\* parse_move's return value when the text is no move.
None == << >>

\* str.lower with the letters left in their case.
lower_keeping_case(s) == s

\* str.lower: A..Z become a..z.
lower(s) ==
    [i \in 1..Len(s) |->
        IF ord(s[i]) \in ord("A")..ord("Z") THEN chr(ord(s[i]) + 32) ELSE s[i]]

\* str.strip: the whitespace at both ends is dropped; the space is the only
\* whitespace among the characters of ASCII.
RECURSIVE strip(_)
strip(s) ==
    IF s # << >> /\ s[1] = " " THEN strip(Tail(s))
    ELSE IF s # << >> /\ s[Len(s)] = " " THEN strip(SubSeq(s, 1, Len(s) - 1))
    ELSE s

\* str.split(sep) for a one-character separator.
RECURSIVE split(_, _)
split(s, sep) ==
    IF sep \notin Elems(s) THEN <<s>>
    ELSE LET i == CHOOSE i \in 1..Len(s) :
                    s[i] = sep /\ \A j \in 1..(i - 1) : s[j] # sep
         IN  <<SubSeq(s, 1, i - 1)>> \o split(SubSeq(s, i + 1, Len(s)), sep)

DecimalDigits == {"0", "1", "2", "3", "4", "5", "6", "7", "8", "9"}

\* The literal int() reads: the text without the whitespace around it and
\* without its sign.
int_literal(s) ==
    LET t == strip(s)
    IN  IF t # << >> /\ t[1] \in {"+", "-"} THEN Tail(t) ELSE t

\* The most digits int() converts: sys.get_int_max_str_digits() of the
\* interpreter as it is started by default.
MaxStrDigits == 4300

\* int(s) raises ValueError: the literal is not a run of decimal digits,
\* single underscores between digits allowed, or it has more than
\* MaxStrDigits digits, leading zeros counted and underscores not.
int_raises(s) ==
    LET u == int_literal(s)
    IN  \/ u = << >>
        \/ \E i \in 1..Len(u) : u[i] \notin DecimalDigits \cup {"_"}
        \/ u[1] = "_" \/ u[Len(u)] = "_"
        \/ \E i \in 1..(Len(u) - 1) : u[i] = "_" /\ u[i + 1] = "_"
        \/ Cardinality({i \in 1..Len(u) : u[i] \in DecimalDigits})
               > MaxStrDigits

RECURSIVE decimal(_)
decimal(u) ==
    IF u = << >> THEN 0
    ELSE IF u[Len(u)] = "_" THEN decimal(SubSeq(u, 1, Len(u) - 1))
    ELSE 10 * decimal(SubSeq(u, 1, Len(u) - 1)) + (ord(u[Len(u)]) - ord("0"))

\* int(s) where it does not raise.
int(s) ==
    LET t == strip(s)
    IN  IF t[1] = "-" THEN 0 - decimal(int_literal(s))
        ELSE decimal(int_literal(s))

parse_move(move_str) ==
    LET has_dash == "-" \in Elems(move_str)
        parts == split(move_str, "-")
        \* first try: the format "row,col-row,col"
        from_part == split(strip(parts[1]), ",")
        to_part == split(strip(parts[2]), ",")
        numeric == /\ has_dash
                   /\ Len(parts) = 2
                   /\ Len(from_part) = 2 /\ Len(to_part) = 2
        numeric_raises == \/ int_raises(from_part[1]) \/ int_raises(from_part[2])
                          \/ int_raises(to_part[1]) \/ int_raises(to_part[2])
        \* second try: the format "a3-b4"
        from_str == lower(strip(parts[1]))
        to_str == lower(strip(parts[2]))
        algebraic == /\ has_dash /\ Len(move_str) >= 5
                     /\ Len(parts) = 2
                     /\ Len(from_str) >= 2 /\ Len(to_str) >= 2
        algebraic_raises == int_raises(<<from_str[2]>>) \/ int_raises(<<to_str[2]>>)
    IN  IF numeric /\ ~numeric_raises
        THEN <<int(from_part[1]), int(from_part[2]),
               int(to_part[1]), int(to_part[2])>>
        ELSE IF algebraic /\ ~algebraic_raises
        THEN <<int(<<from_str[2]>>) - 1, ord(from_str[1]) - ord("a"),
               int(<<to_str[2]>>) - 1, ord(to_str[1]) - ord("a")>>
        ELSE None

(***************************************************************************)
(* Game objects.  Every CheckersGame() call makes a new object; objs maps  *)
(* the reference of each live object to its fields, and a room or a chat   *)
(* holds the reference of its game.                                        *)
(***************************************************************************)

\* The fields __init__ gives a game.
CheckersGame ==
    [board |-> _initialize_board, current_player |-> "RED",
     game_over |-> FALSE, winner |-> "None"]

\* A reference no live object has.
fresh_ref(os) == CHOOSE n \in 1..(Cardinality(DOMAIN os) + 1) : n \notin DOMAIN os

\* One game object made once and handed out to every caller.
new_game_shared_by_all(os) ==
    IF 1 \in DOMAIN os THEN [ref |-> 1, objs |-> os]
    ELSE [ref |-> 1, objs |-> (1 :> CheckersGame)]

\* CheckersGame(): the reference of the new object and the objects after
\* the call.
new_game(os) ==
    [ref |-> fresh_ref(os), objs |-> os @@ (fresh_ref(os) :> CheckersGame)]

\* The objects that stay alive: those a room or a chat refers to.
collect(rs, gs, os) ==
    LET live == {rs[r].game : r \in DOMAIN rs} \cup {gs[c] : c \in DOMAIN gs}
    IN  [ref \in DOMAIN os \cap live |-> os[ref]]

\* make_move on the game object g: the return value and the object after.
game_make_move(g, from_row, from_col, to_row, to_col) ==
    LET returned(r) ==
            [ret |-> r.ret,
             game |-> [board |-> r.board, current_player |-> r.current_player,
                       game_over |-> r.game_over, winner |-> r.winner]]
    IN  Once(make_move(g.board, g.current_player, g.game_over, g.winner,
                       from_row, from_col, to_row, to_col), returned)

(***************************************************************************)
(* The rooms (game_rooms.py) and the move endpoint (web_server.py).  User  *)
(* ids are positive integers; the None of opponent_id is written NoUser,   *)
(* the None of a colour "None".  Room ids are numbers standing for the     *)
(* uuid strings; the usernames are left out.                               *)
(***************************************************************************)

NoUser == 0

\* GameRoom(room_id, creator_id, creator_username) with the field defaults.
GameRoom(creator_id, ref) ==
    [creator_id |-> creator_id, creator_color |-> "None",
     opponent_id |-> NoUser, game |-> ref]

\* create_room: the rooms and the objects after the call.
create_room(rs, os, creator_id) ==
    LET room_id == Cardinality(DOMAIN rs) + 1
        made == new_game(os)
    IN  [rooms |-> rs @@ (room_id :> GameRoom(creator_id, made.ref)),
         objs |-> made.objs, room_id |-> room_id]

get_room(rs, room_id) == IF room_id \in DOMAIN rs THEN <<rs[room_id]>> ELSE None

set_creator_color(room, color) == [room EXCEPT !.creator_color = color]

\* join raises ValueError.
join_raises(room) == room.opponent_id # NoUser

join(room, user_id) == [room EXCEPT !.opponent_id = user_id]

get_player_color(room, user_id) ==
    IF user_id = room.creator_id THEN room.creator_color
    ELSE IF user_id = room.opponent_id
    THEN (IF room.creator_color = "red" THEN "black" ELSE "red")
    ELSE "None"

is_player_turn(room, g, user_id) ==
    LET player_color == get_player_color(room, user_id)
    IN  IF player_color = "None" THEN FALSE
        ELSE IF player_color = "red" THEN g.current_player = "RED"
        ELSE g.current_player = "BLACK"

\* GameRoom.make_move without the test of is_player_turn.
GameRoom_make_move_any_turn(room, g, user_id, from_row, from_col, to_row, to_col) ==
    LET player_color == get_player_color(room, user_id)
        piece == get_piece(g.board, from_row, from_col)
        moved == game_make_move(g, from_row, from_col, to_row, to_col)
        Refuse(reason) == [success |-> FALSE, error |-> reason, game |-> g,
                           forwarded |-> FALSE]
    IN  IF room.opponent_id = NoUser
        THEN Refuse("Game not started - waiting for opponent")
        ELSE IF player_color = "red" /\ piece \notin RedPieces
        THEN Refuse("That's not your piece")
        ELSE IF player_color = "black" /\ piece \notin BlackPieces
        THEN Refuse("That's not your piece")
        ELSE IF moved.ret
        THEN [success |-> TRUE, error |-> "None", game |-> moved.game,
              forwarded |-> TRUE]
        ELSE [success |-> FALSE, error |-> "Invalid move", game |-> g,
              forwarded |-> TRUE]

\* GameRoom.make_move on the room and its game object g: the returned pair,
\* the game object after the call, and whether line 70 called the engine.
GameRoom_make_move(room, g, user_id, from_row, from_col, to_row, to_col) ==
    LET player_color == get_player_color(room, user_id)
        piece == get_piece(g.board, from_row, from_col)
        moved == game_make_move(g, from_row, from_col, to_row, to_col)
        Refuse(reason) == [success |-> FALSE, error |-> reason, game |-> g,
                           forwarded |-> FALSE]
    IN  IF room.opponent_id = NoUser
        THEN Refuse("Game not started - waiting for opponent")
        ELSE IF ~is_player_turn(room, g, user_id)
        THEN Refuse("Not your turn")
        ELSE IF player_color = "red" /\ piece \notin RedPieces
        THEN Refuse("That's not your piece")
        ELSE IF player_color = "black" /\ piece \notin BlackPieces
        THEN Refuse("That's not your piece")
        ELSE IF moved.ret
        THEN [success |-> TRUE, error |-> "None", game |-> moved.game,
              forwarded |-> TRUE]
        ELSE [success |-> FALSE, error |-> "Invalid move", game |-> g,
              forwarded |-> TRUE]

\* The endpoint POST /api/room/{room_id}/move: the HTTP status, the detail
\* of the error, the objects after the call, and whether the engine was
\* called.
api_make_move(rs, os, room_id, user_id, from_row, from_col, to_row, to_col) ==
    IF get_room(rs, room_id) = None
    THEN [status |-> 404, detail |-> "Room not found", objs |-> os,
          forwarded |-> FALSE]
    ELSE LET room == rs[room_id]
             response(r) ==
                 [status |-> IF r.success THEN 200 ELSE 400, detail |-> r.error,
                  objs |-> [os EXCEPT ![room.game] = r.game],
                  forwarded |-> r.forwarded]
         IN  Once(GameRoom_make_move(room, os[room.game], user_id,
                                     from_row, from_col, to_row, to_col),
                  response)

(***************************************************************************)
(* The chats (bot.py).                                                     *)
(***************************************************************************)

\* get_game: the games and the objects after the call, and the reference
\* of the chat's game.
get_game(gs, os, chat_id) ==
    IF chat_id \notin DOMAIN gs
    THEN LET made == new_game(os)
         IN  [games |-> gs @@ (chat_id :> made.ref), objs |-> made.objs,
              ref |-> made.ref]
    ELSE [games |-> gs, objs |-> os, ref |-> gs[chat_id]]

\* newgame: games[chat_id] = CheckersGame().
newgame(gs, os, chat_id) ==
    LET made == new_game(os)
    IN  [games |-> [c \in DOMAIN gs \cup {chat_id} |->
                       IF c = chat_id THEN made.ref ELSE gs[c]],
         objs |-> made.objs]

\* show_board: the games and the objects after the call; the reply is the
\* board of the chat's game, which get_game makes where the chat has none.
show_board(gs, os, chat_id) ==
    LET got == get_game(gs, os, chat_id)
    IN  [games |-> got.games, objs |-> got.objs, reply |-> "the board"]

\* handle_move for the message text move_str: the games and the objects
\* after the call and the kind of reply sent.
handle_move(gs, os, chat_id, move_str) ==
    LET replied(got, g, move) ==
            LET piece == get_piece(g.board, move[1], move[2])
                moved == game_make_move(g, move[1], move[2], move[3], move[4])
                Reply(kind) ==
                    [games |-> got.games, objs |-> got.objs, reply |-> kind]
            IN  IF g.game_over THEN Reply("Game is over")
                ELSE IF move = None THEN Reply("Invalid move format")
                ELSE IF \/ ~is_valid_position(move[1], move[2])
                        \/ ~is_valid_position(move[3], move[4])
                THEN Reply("Invalid coordinates")
                ELSE IF g.current_player = "RED" /\ piece \notin RedPieces
                THEN Reply("That's not your piece")
                ELSE IF g.current_player = "BLACK" /\ piece \notin BlackPieces
                THEN Reply("That's not your piece")
                ELSE IF moved.ret
                THEN [games |-> got.games,
                      objs |-> [got.objs EXCEPT ![got.ref] = moved.game],
                      reply |-> "Move made"]
                ELSE IF get_valid_moves(g.board, g.current_player,
                                        move[1], move[2]) = << >>
                THEN Reply("No valid moves from that position")
                ELSE Reply("Invalid move")
        game_got(got) ==
            Once(parse_move(strip(move_str)),
                 LAMBDA move : replied(got, got.objs[got.ref], move))
    IN  Once(get_game(gs, os, chat_id), game_got)

(***************************************************************************)
(* The two asynchronous handlers of move requests.  A handler runs from    *)
(* one await to the next without other handlers running in between.        *)
(***************************************************************************)

\* Every handler awaiting between its tests and its call of make_move.
awaits_before_apply_everywhere(kind) == TRUE

\* Whether the handler awaits between reading the session's game and
\* applying the move: make_move of web_server.py contains no await, and
\* handle_move of bot.py awaits reply_text only where it returns at once
\* and after game.make_move.
awaits_before_apply(kind) == FALSE

\* What the handler of the request does to games and objs when it runs
\* without interruption.
handled(rs, gs, os, req) ==
    LET posted(r) == [games |-> gs, objs |-> r.objs, ok |-> r.status = 200]
        sent(r) == [games |-> r.games, objs |-> r.objs,
                    ok |-> r.reply = "Move made"]
    IN  IF req.kind = "http"
        THEN Once(api_make_move(rs, os, req.id, req.user_id, req.move[1],
                                req.move[2], req.move[3], req.move[4]), posted)
        ELSE Once(handle_move(gs, os, req.id, req.move_str), sent)

\* make_move, lines 141-165, on the game object g: the object after a move
\* that has passed the tests.
applied(g, from_row, from_col, to_row, to_col) ==
    LET b3 == moved_board(g.board, from_row, from_col, to_row, to_col)
        over == _check_game_over(b3, g.current_player, g.game_over, g.winner)
    IN  [board |-> b3,
         current_player |-> next_player(b3, g.current_player, from_row, to_row,
                                        to_col),
         game_over |-> over.game_over, winner |-> over.winner]

(***************************************************************************)
(* The recorded games.  Each is a list of make_move arguments              *)
(* <<from_row, from_col, to_row, to_col>> that the engine accepts in turn  *)
(* from the opening layout.                                                *)
(***************************************************************************)

\* Ends with Black capturing the last Red piece; on the way a man of each
\* colour is crowned and captures are chained.
LineA ==
    << <<5,6,4,5>>, <<2,1,3,2>>, <<5,2,4,3>>, <<1,2,2,1>>,
       <<6,5,5,6>>, <<0,3,1,2>>, <<5,0,4,1>>, <<3,2,5,0>>,
       <<6,3,5,2>>, <<2,5,3,6>>, <<7,6,6,5>>, <<2,1,3,2>>,
       <<4,3,2,1>>, <<2,1,0,3>>, <<0,3,2,5>>, <<5,6,4,7>>,
       <<1,6,3,4>>, <<3,4,5,6>>, <<5,4,4,3>>, <<0,1,1,2>>,
       <<6,7,4,5>>, <<3,6,5,4>>, <<5,4,7,6>>, <<7,4,6,5>>,
       <<7,6,5,4>>, <<5,4,3,2>>, <<4,7,3,6>>, <<2,7,4,5>>,
       <<7,2,6,3>>, <<5,0,7,2>>, <<7,2,5,4>>, <<5,2,4,1>>,
       <<3,2,5,0>>, <<7,0,6,1>>, <<5,0,7,2>> >>

\* Ends with Red stepping to (3,6), after which neither Red man can move.
LineB ==
    << <<5,2,4,3>>, <<2,5,3,6>>, <<5,0,4,1>>, <<1,6,2,5>>,
       <<6,3,5,2>>, <<2,3,3,2>>, <<4,1,2,3>>, <<1,2,3,4>>,
       <<5,4,4,5>>, <<3,6,5,4>>, <<7,2,6,3>>, <<5,4,7,2>>,
       <<7,2,5,0>>, <<5,2,4,1>>, <<3,4,5,2>>, <<7,0,6,1>>,
       <<5,0,7,2>>, <<4,1,3,2>>, <<2,1,4,3>>, <<5,6,4,7>>,
       <<0,1,1,2>>, <<7,4,6,3>>, <<5,2,7,4>>, <<7,4,5,6>>,
       <<6,7,4,5>>, <<7,2,6,1>>, <<7,6,6,5>>, <<6,1,7,0>>,
       <<6,5,5,4>>, <<4,3,6,5>>, <<4,5,3,6>> >>

\* Ends with Black capturing all but one Red man, the man at (3,0), which
\* is blocked by the Black men at (2,1) and (1,2).
LineC ==
    << <<5,2,4,1>>, <<2,1,3,2>>, <<5,4,4,3>>, <<3,2,5,4>>,
       <<6,5,4,3>>, <<2,3,3,4>>, <<6,3,5,2>>, <<1,0,2,1>>,
       <<4,1,3,0>>, <<1,4,2,3>>, <<7,6,6,5>>, <<2,3,3,2>>,
       <<7,2,6,3>>, <<3,2,5,4>>, <<5,4,7,6>>, <<7,4,6,5>>,
       <<7,6,5,4>>, <<5,4,7,2>>, <<5,0,4,1>>, <<7,2,5,0>>,
       <<5,0,3,2>>, <<5,2,4,1>>, <<3,2,5,0>>, <<7,0,6,1>>,
       <<5,0,7,2>>, <<5,6,4,7>>, <<0,5,1,4>>, <<4,7,3,6>>,
       <<2,5,4,7>>, <<6,7,5,6>>, <<4,7,6,5>> >>

\* Opens with Red's man stepping from (5,0) to (4,1), then an exchange of
\* captures.
LineD ==
    << <<5,0,4,1>>, <<2,3,3,2>>, <<4,1,2,3>>, <<1,4,3,2>> >>

Lines == <<LineA, LineB, LineC, LineD>>

(***************************************************************************)
(* The calls the environment makes.                                        *)
(***************************************************************************)

Called == call # << >>

Accepted == Called /\ call[1].ret

Rejected == Called /\ ~call[1].ret

\* The next move of the recorded game, while the run is still on it.
LineCalls ==
    IF dev = 0 /\ ply < Len(Lines[line]) THEN {Lines[line][ply + 1]} ELSE {}

\* Every move the engine accepts in the current state.
LegalCalls ==
    IF game_over THEN {}
    ELSE UNION {{<<row, col, t[1], t[2]>> :
                    t \in Elems(get_valid_moves(board, current_player, row, col))} :
                <<row, col>> \in Rows \X Rows}

\* Calls from any coordinates, on the board or off it, to the same cell or a
\* cell one or two diagonal steps away.
ProbeCalls ==
    {<<c[1], c[2], c[1] + k * d[1], c[2] + k * d[2]>> :
        c \in Coord \X Coord, d \in {-1, 1} \X {-1, 1}, k \in 0..2}

\* A rejected call changes nothing, so the calls that could follow it are the
\* calls of the state before it: the run is not continued past it.
Calls ==
    IF Rejected THEN {}
    ELSE LineCalls \cup (IF dev = 0 THEN ProbeCalls ELSE {})
                   \cup (IF dev < MaxDev THEN LegalCalls ELSE {})

\* A game as __init__ leaves it, with no call made on it yet.
NewGame ==
    /\ board = _initialize_board
    /\ current_player = "RED"
    /\ game_over = FALSE
    /\ winner = "None"
    /\ call = << >>
    /\ ply = 0
    /\ dev = 0
    /\ streak = 0
    /\ read = << >>

\* No text has been given to parse_move yet.
NothingParsed == text = << >> /\ parsed = None

\* The module-level dictionaries rooms and games are empty.
NoSessions == rooms = << >> /\ games = << >> /\ objs = << >> /\ last = << >>

NoRequests == requests = << >> /\ base = << >>

Init ==
    /\ NewGame
    /\ line \in 1..Len(Lines)
    /\ NothingParsed
    /\ NoSessions
    /\ NoRequests

\* The same with the first recorded game chosen, for the runs that make no
\* move on the game of Init.
InitOffTheRecord ==
    /\ NewGame
    /\ line = 1
    /\ NothingParsed
    /\ NoSessions
    /\ NoRequests

\* The accepted moves in a row that have left current_player as it was,
\* after a call that returned ret and left cp_after to move.
kept_turns(n, ret, cp, cp_after) ==
    IF ~ret THEN n ELSE IF cp_after = cp THEN n + 1 ELSE 0

\* One call make_move(from_row, from_col, to_row, to_col).
MakeMove(from_row, from_col, to_row, to_col) ==
    LET r == make_move(board, current_player, game_over, winner,
                       from_row, from_col, to_row, to_col)
        on_line == <<from_row, from_col, to_row, to_col>> \in LineCalls
    IN  /\ board' = r.board
        /\ current_player' = r.current_player
        /\ game_over' = r.game_over
        /\ winner' = r.winner
        /\ call' = << [from_row |-> from_row, from_col |-> from_col,
                       to_row |-> to_row, to_col |-> to_col,
                       piece |-> get_piece(board, from_row, from_col),
                       ret |-> r.ret] >>
        /\ ply' = IF r.ret /\ on_line THEN ply + 1 ELSE ply
        /\ dev' = IF r.ret /\ ~on_line THEN dev + 1 ELSE dev
        /\ dev' <= MaxDev
        /\ streak' = kept_turns(streak, r.ret, current_player, r.current_player)
        /\ read' = IF r.ret THEN << >> ELSE read
        /\ UNCHANGED <<line, parse_vars, session_vars, request_vars>>

Next == \E a \in Calls : MakeMove(a[1], a[2], a[3], a[4])

Spec == Init /\ [][Next]_vars

(***************************************************************************)
(* Reads between the moves of a recorded game: get_piece and               *)
(* get_valid_moves are called for any coordinates, and the same call is    *)
(* repeated up to MaxReads times before the game goes on.                  *)
(***************************************************************************)

\* The first read in a position has any arguments; the reads that follow it
\* repeat it.
ReadCalls ==
    IF read = << >> THEN {"get_piece", "get_valid_moves"} \X Coord \X Coord
    ELSE IF read[1].n < MaxReads THEN {<<read[1].op, read[1].row, read[1].col>>}
    ELSE {}

\* One call get_piece(row, col) or get_valid_moves(row, col).
Read(op, row, col) ==
    LET r == IF op = "get_piece"
             THEN call_get_piece(board, current_player, game_over, winner,
                                 row, col)
             ELSE call_get_valid_moves(board, current_player, game_over, winner,
                                       row, col)
    IN  /\ board' = r.board
        /\ current_player' = r.current_player
        /\ game_over' = r.game_over
        /\ winner' = r.winner
        /\ read' = << [op |-> op, row |-> row, col |-> col, ret |-> r.ret,
                       n |-> IF read = << >> THEN 1 ELSE read[1].n + 1] >>
        /\ UNCHANGED <<call, line, ply, dev, streak, parse_vars, session_vars,
                       request_vars>>

NextReads ==
    \/ \E a \in LineCalls : MakeMove(a[1], a[2], a[3], a[4])
    \/ \E a \in ReadCalls : Read(a[1], a[2], a[3])

SpecReads == Init /\ [][NextReads]_vars

(***************************************************************************)
(* Texts given to parse_move: the texts of up to MaxLen characters of      *)
(* Alphabet, typed one character at a time and parsed after each, and the  *)
(* texts of Examples, three of them with a field of more digits than int() *)
(* converts.                                                               *)
(***************************************************************************)

Alphabet == {"a", "B", "6", ",", "-"}

\* The text of n zeros.
Zeros(n) == [i \in 1..n |-> "0"]

Examples ==
    { <<"a", "6", "-", "b", "5">>,
      <<"A", "6", "-", "B", "5">>,
      <<"2", ",", "0", "-", "3", ",", "1">>,
      <<"2", "2", ",", "0", "-", "3", "3", ",", "1">>,
      <<"h", "1", "-", "G", "2">>,
      <<"5", "5", "-", "4", "4">>,
      <<"a", "0", "-", "b", "9">>,
      <<"a", "6", "b", "5">>,
      <<" ", "a", "6", " ", "-", " ", "B", "5", " ">>,
      <<"2", " ", ",", "0", "-", " ", "3", ",", "1", " ">>,
      <<"2", ",", "x", "-", "3", ",", "1">>,
      Zeros(MaxStrDigits) \o <<"5", ",", "0", "-", "4", ",", "1">>,
      <<"5", ",", "0", "-", "4", ",">> \o Zeros(MaxStrDigits) \o <<"1">>,
      Zeros(MaxStrDigits + 1) \o <<",", "0", "-", "1", "4", ",", "1">> }

\* One call parse_move(move_str).
ParseMove(move_str) ==
    /\ text' = move_str
    /\ parsed' = parse_move(move_str)
    /\ UNCHANGED <<board, current_player, game_over, winner, call, line, ply,
                   dev, streak, read, session_vars, request_vars>>

NextParse ==
    \/ \E c \in Alphabet :
          /\ Len(text) < MaxLen
          /\ Elems(text) \subseteq Alphabet
          /\ ParseMove(Append(text, c))
    \/ \E t \in Examples : text = << >> /\ ParseMove(t)

SpecParse == InitOffTheRecord /\ [][NextParse]_vars

(***************************************************************************)
(* Operations on rooms and chats, in any order.  User 1 creates the rooms, *)
(* user 2 joins them, user 3 takes part in none.                            *)
(***************************************************************************)

Users == {1, 2, 3}

Creators == {1}

Joiners == {2}

Colors == {"red", "black"}

RoomIds == 1..MaxRooms

ChatIds == 1..MaxChats

\* The moves sent to a room: Red's step 5,0-4,1, Black's step 2,1-3,2, a
\* Red man sent two rows ahead, an empty cell and a cell off the board.
RoomMoves ==
    { <<5, 0, 4, 1>>, <<2, 1, 3, 2>>, <<5, 2, 3, 2>>, <<4, 0, 3, 1>>,
      <<-1, 0, 0, 1>> }

\* The messages sent to the bot: "5,0-4,1", " b3-c4 ", "5,2-3,2", "55-44"
\* and "hello".
ChatTexts ==
    { <<"5", ",", "0", "-", "4", ",", "1">>,
      <<" ", "b", "3", "-", "c", "4", " ">>,
      <<"5", ",", "2", "-", "3", ",", "2">>,
      <<"5", "5", "-", "4", "4">>,
      <<"h", "e", "l", "l", "o">> }

\* The record of an operation: the session it addressed, the user and the
\* move of a move request, and its answer.
Answer(op, kind, id, user_id, move, ok, error, forwarded) ==
    << [op |-> op, kind |-> kind, id |-> id, user_id |-> user_id,
        move |-> move, ok |-> ok, error |-> error, forwarded |-> forwarded] >>

\* A refused operation changes no room and no game, so the operations that
\* could follow it are those of the state before it: the run is not
\* continued past it.
Proceeding == IF last = << >> THEN TRUE ELSE last[1].ok

Untouched ==
    UNCHANGED <<board, current_player, game_over, winner, call, line, ply, dev,
                streak, read, parse_vars, request_vars>>

CreateRoom(creator_id) ==
    \E r \in {create_room(rooms, objs, creator_id)} :
        /\ Cardinality(DOMAIN rooms) < MaxRooms
        /\ rooms' = r.rooms
        /\ objs' = r.objs
        /\ last' = Answer("create_room", "room", r.room_id, creator_id, << >>,
                          TRUE, "None", FALSE)
        /\ UNCHANGED games
        /\ Untouched

SetCreatorColor(room_id, color) ==
    /\ room_id \in DOMAIN rooms
    /\ rooms' = [rooms EXCEPT ![room_id] = set_creator_color(@, color)]
    /\ last' = Answer("set_creator_color", "room", room_id, NoUser, << >>,
                      TRUE, "None", FALSE)
    /\ UNCHANGED <<games, objs>>
    /\ Untouched

Join(room_id, user_id) ==
    /\ room_id \in DOMAIN rooms
    /\ IF join_raises(rooms[room_id])
       THEN /\ last' = Answer("join", "room", room_id, user_id, << >>,
                              FALSE, "ValueError", FALSE)
            /\ UNCHANGED rooms
       ELSE /\ last' = Answer("join", "room", room_id, user_id, << >>,
                              TRUE, "None", FALSE)
            /\ rooms' = [rooms EXCEPT ![room_id] = join(@, user_id)]
    /\ UNCHANGED <<games, objs>>
    /\ Untouched

\* One request POST /api/room/{room_id}/move.
PostMove(room_id, user_id, from_row, from_col, to_row, to_col) ==
    \E r \in {api_make_move(rooms, objs, room_id, user_id,
                             from_row, from_col, to_row, to_col)} :
        /\ objs' = r.objs
        /\ last' = Answer("make_move", "room", room_id, user_id,
                          <<from_row, from_col, to_row, to_col>>,
                          r.status = 200, r.detail, r.forwarded)
        /\ UNCHANGED <<rooms, games>>
        /\ Untouched

\* One /newgame command; the object the chat had before is dropped with
\* its last reference.
ChatNewGame(chat_id) ==
    \E r \in {newgame(games, objs, chat_id)} :
        /\ games' = r.games
        /\ objs' = collect(rooms, r.games, r.objs)
        /\ last' = Answer("newgame", "chat", chat_id, NoUser, << >>,
                          TRUE, "None", FALSE)
        /\ UNCHANGED rooms
        /\ Untouched

\* One /board command.
ChatBoard(chat_id) ==
    \E r \in {show_board(games, objs, chat_id)} :
        /\ games' = r.games
        /\ objs' = r.objs
        /\ last' = Answer("show_board", "chat", chat_id, NoUser, << >>,
                          TRUE, "None", FALSE)
        /\ UNCHANGED rooms
        /\ Untouched

\* One text message to the bot.
ChatMove(chat_id, move_str) ==
    \E r \in {handle_move(games, objs, chat_id, move_str)} :
        /\ games' = r.games
        /\ objs' = r.objs
        /\ last' = Answer("handle_move", "chat", chat_id, NoUser,
                          parse_move(strip(move_str)),
                          r.reply = "Move made", r.reply, FALSE)
        /\ UNCHANGED rooms
        /\ Untouched

NextRooms ==
    \/ \E u \in Creators : Proceeding /\ CreateRoom(u)
    \/ \E r \in RoomIds, c \in Colors : Proceeding /\ SetCreatorColor(r, c)
    \/ \E r \in RoomIds, u \in Joiners : Proceeding /\ Join(r, u)
    \/ \E r \in RoomIds, u \in Users, m \in RoomMoves :
          Proceeding /\ PostMove(r, u, m[1], m[2], m[3], m[4])
    \/ \E c \in ChatIds : Proceeding /\ ChatNewGame(c)
    \/ \E c \in ChatIds : Proceeding /\ ChatBoard(c)
    \/ \E c \in ChatIds, t \in ChatTexts : Proceeding /\ ChatMove(c, t)

SpecRooms == InitOffTheRecord /\ [][NextRooms]_vars

(***************************************************************************)
(* Concurrent move requests.  A room and a chat are set up and played on,  *)
(* then up to MaxInFlight move requests to the room, or to the chat,       *)
(* arrive together and their handlers run in any interleaving.             *)
(***************************************************************************)

ConcurrentMoves == { <<5, 0, 4, 1>>, <<2, 1, 3, 2>> }

ConcurrentTexts ==
    { <<"5", ",", "0", "-", "4", ",", "1">>,
      <<" ", "b", "3", "-", "c", "4", " ">> }

\* The requests that can arrive: to room 1 from user 1 or 2, or to chat 1.
Requests ==
    {[kind |-> "http", id |-> 1, user_id |-> u, move |-> m, move_str |-> << >>,
      pc |-> "received", verdict |-> FALSE] :
        u \in {1, 2}, m \in ConcurrentMoves}
    \cup
    {[kind |-> "chat", id |-> 1, user_id |-> NoUser,
      move |-> parse_move(strip(t)), move_str |-> t,
      pc |-> "received", verdict |-> FALSE] : t \in ConcurrentTexts}

\* No request has arrived yet.
SettingUp == requests = << >> /\ Proceeding

GameUntouched ==
    UNCHANGED <<board, current_player, game_over, winner, call, line, ply, dev,
                streak, read, parse_vars>>

\* A request arrives while none of those before it has begun to be handled.
Submit(req) ==
    /\ Proceeding
    /\ Len(requests) < MaxInFlight
    /\ \A i \in 1..Len(requests) :
           /\ requests[i].pc = "received"
           /\ requests[i].kind = req.kind
    /\ requests' = Append(requests, req)
    /\ base' = <<games, objs>>
    /\ UNCHANGED session_vars
    /\ GameUntouched

\* The reference of the game the request is about.
game_of(req) == IF req.kind = "http" THEN rooms[req.id].game ELSE games[req.id]

\* The handler of request i runs up to its next await or to its end.
Step(i) ==
    LET req == requests[i]
        got == get_game(games, objs, req.id)
        Becomes(pc, verdict) ==
            requests' = [requests EXCEPT ![i].pc = pc, ![i].verdict = verdict]
    IN  \E whole \in {handled(rooms, games, objs, req)} :
        /\ req.pc # "done"
        /\ IF req.pc = "received" /\ ~awaits_before_apply(req.kind)
           THEN /\ games' = whole.games
                /\ objs' = whole.objs
                /\ Becomes(IF req.kind = "chat" THEN "applied" ELSE "done",
                           whole.ok)
           ELSE IF req.pc = "received"
           THEN /\ games' = IF req.kind = "chat" THEN got.games ELSE games
                /\ objs' = IF req.kind = "chat" THEN got.objs ELSE objs
                /\ Becomes("checked", whole.ok)
           ELSE IF req.pc = "checked"
           THEN /\ games' = games
                /\ objs' = IF req.verdict
                           THEN [objs EXCEPT ![game_of(req)] =
                                    applied(@, req.move[1], req.move[2],
                                            req.move[3], req.move[4])]
                           ELSE objs
                /\ Becomes(IF req.kind = "chat" THEN "applied" ELSE "done",
                           req.verdict)
           ELSE /\ UNCHANGED <<games, objs>>
                /\ Becomes("done", req.verdict)
        /\ UNCHANGED <<rooms, last, base>>
        /\ GameUntouched

NextConcurrent ==
    \/ \E u \in Creators : SettingUp /\ DOMAIN rooms = {} /\ CreateRoom(u)
    \/ \E c \in Colors : SettingUp /\ SetCreatorColor(1, c)
    \/ \E u \in Joiners : SettingUp /\ Join(1, u)
    \/ \E u \in {1, 2}, m \in ConcurrentMoves :
          SettingUp /\ PostMove(1, u, m[1], m[2], m[3], m[4])
    \/ SettingUp /\ ChatBoard(1)
    \/ \E t \in ConcurrentTexts : SettingUp /\ ChatMove(1, t)
    \/ \E req \in Requests : Submit(req)
    \/ \E i \in 1..Len(requests) : Step(i)

SpecConcurrent == InitOffTheRecord /\ [][NextConcurrent]_vars

(***************************************************************************)
(* Continued play.  A recorded game is replayed until a Black man, a Black *)
(* king and a Red man are left; from there every move the engine accepts   *)
(* may be made, and a move is made for as long as the engine accepts one.  *)
(***************************************************************************)

\* Leaves a Black king on (2,5), a Black man on (3,2) and a Red man on
\* (5,2), Red to move; captures are chained at its moves 38 and 55.
Endgame ==
    << <<5,6,4,5>>, <<2,7,3,6>>, <<4,5,2,7>>, <<2,1,3,0>>,
       <<6,7,5,6>>, <<2,3,3,4>>, <<5,2,4,3>>, <<3,4,5,2>>,
       <<6,3,4,1>>, <<3,0,5,2>>, <<6,1,4,3>>, <<2,5,3,4>>,
       <<7,6,6,7>>, <<3,4,5,2>>, <<7,4,6,3>>, <<1,0,2,1>>,
       <<6,3,4,1>>, <<0,1,1,0>>, <<5,6,4,7>>, <<1,6,2,5>>,
       <<5,4,4,5>>, <<1,4,2,3>>, <<7,2,6,1>>, <<2,1,3,0>>,
       <<4,5,3,4>>, <<3,0,5,2>>, <<3,4,1,6>>, <<0,7,2,5>>,
       <<6,1,4,3>>, <<2,5,3,6>>, <<4,7,2,5>>, <<0,5,1,6>>,
       <<2,7,0,5>>, <<1,2,2,1>>, <<6,7,5,6>>, <<2,3,3,2>>,
       <<2,5,1,6>>, <<3,2,5,4>>, <<5,4,7,6>>, <<0,5,1,4>>,
       <<0,3,2,5>>, <<5,6,4,5>>, <<7,6,6,7>>, <<1,6,0,7>>,
       <<6,7,7,6>>, <<0,7,1,6>>, <<2,1,3,2>>, <<1,6,3,4>>,
       <<3,2,4,1>>, <<5,0,3,2>>, <<7,6,6,5>>, <<7,0,6,1>>,
       <<6,5,5,6>>, <<3,4,2,5>>, <<5,6,3,4>>, <<3,4,1,6>>,
       <<6,1,5,2>>, <<1,6,2,5>>, <<3,2,2,1>>, <<1,0,3,2>> >>

\* One call make_move(from_row, from_col, to_row, to_col) that the engine
\* accepts.
AcceptedMove(from_row, from_col, to_row, to_col) ==
    /\ call' = << [from_row |-> from_row, from_col |-> from_col,
                   to_row |-> to_row, to_col |-> to_col,
                   piece |-> get_piece(board, from_row, from_col),
                   ret |-> TRUE] >>
    /\ \E r \in {make_move(board, current_player, game_over, winner,
                            from_row, from_col, to_row, to_col)} :
           /\ r.ret
           /\ board' = r.board
           /\ current_player' = r.current_player
           /\ game_over' = r.game_over
           /\ winner' = r.winner
           /\ streak' = kept_turns(streak, r.ret, current_player,
                                   r.current_player)
    /\ UNCHANGED <<line, dev, read, parse_vars, session_vars, request_vars>>

\* The next move of the recorded game.
Replay ==
    /\ ply < Len(Endgame)
    /\ AcceptedMove(Endgame[ply + 1][1], Endgame[ply + 1][2],
                    Endgame[ply + 1][3], Endgame[ply + 1][4])
    /\ ply' = ply + 1

\* Any move the engine accepts, once the recorded game has been replayed.
Play ==
    /\ ply = Len(Endgame)
    /\ \E a \in LegalCalls : AcceptedMove(a[1], a[2], a[3], a[4])
    /\ UNCHANGED ply

NextPlay == Replay \/ Play

\* Play continues: a move is made whenever the engine accepts one.
SpecPlay == InitOffTheRecord /\ [][NextPlay]_vars /\ WF_vars(NextPlay)

(***************************************************************************)
(* The rules as the specification words them, for stating the properties.  *)
(***************************************************************************)

Other(side) == IF side = "RED" THEN "BLACK" ELSE "RED"

PiecesOf(side) == IF side = "RED" THEN RedPieces ELSE BlackPieces

Cells == Rows \X Rows

CellsOf(b, side) == {p \in Cells : b[p[1]][p[2]] \in PiecesOf(side)}

\* A man moves toward the opponent's edge, a king along all four diagonals.
DirectionsOf(piece) ==
    IF piece \in Kings THEN {-1, 1} \X {-1, 1}
    ELSE IF piece = "RED" THEN {<<-1, -1>>, <<-1, 1>>}
    ELSE IF piece = "BLACK" THEN {<<1, -1>>, <<1, 1>>}
    ELSE {}

OnBoard(p) == p[1] \in Rows /\ p[2] \in Rows

\* Capture destinations of the piece on cell p: the adjacent diagonal cell
\* holds an opponent piece and the cell two steps away is on-board and empty.
CaptureDestinations(b, p) ==
    LET piece == b[p[1]][p[2]]
        side == IF piece \in RedPieces THEN "RED" ELSE "BLACK"
    IN  {<<p[1] + 2 * d[1], p[2] + 2 * d[2]>> : d \in
            {d \in DirectionsOf(piece) :
                /\ OnBoard(<<p[1] + 2 * d[1], p[2] + 2 * d[2]>>)
                /\ b[p[1] + d[1]][p[2] + d[2]] \in PiecesOf(Other(side))
                /\ b[p[1] + 2 * d[1]][p[2] + 2 * d[2]] = "EMPTY"}}

\* Simple-step destinations: the adjacent diagonal cell is on-board and empty.
StepDestinations(b, p) ==
    {<<p[1] + d[1], p[2] + d[2]>> : d \in
        {d \in DirectionsOf(b[p[1]][p[2]]) :
            /\ OnBoard(<<p[1] + d[1], p[2] + d[2]>>)
            /\ b[p[1] + d[1]][p[2] + d[2]] = "EMPTY"}}

\* legalDestinations(position), as a set.
legalDestinations(row, col) ==
    Elems(get_valid_moves(board, current_player, row, col))

\* The side has a piece with a legal destination.
CanMove(side) ==
    \E p \in CellsOf(board, side) :
        get_valid_moves(board, side, p[1], p[2]) # << >>

from == <<call[1].from_row, call[1].from_col>>

to == <<call[1].to_row, call[1].to_col>>

\* The last call was an accepted capture: the piece landed two rows away.
Captured == Accepted /\ Abs(call[1].to_row - call[1].from_row) = 2

\* A capture chain is pending: the last call was a capture and the side that
\* made it is still the side to move.
ChainPending ==
    Captured /\ ~game_over /\ board[to[1]][to[2]] \in PiecesOf(current_player)

(***************************************************************************)
(* The properties.                                                         *)
(***************************************************************************)

\* C1: a call made when the game is over, or with a target that is not in
\* legalDestinations(from), returns False and leaves board, side-to-move,
\* gameOver and winner as they were, for on- and off-board coordinates alike.
C1_RefusedCallChangesNothing ==
    [][(\/ game_over
        \/ <<call'[1].to_row, call'[1].to_col>> \notin
               legalDestinations(call'[1].from_row, call'[1].from_col))
       => (~call'[1].ret /\ UNCHANGED game)]_vars

\* C1 witness: a finished game has refused a move that legalDestinations
\* still lists for the side to move.
C1_Witness ==
    /\ Rejected /\ game_over
    /\ to \in legalDestinations(from[1], from[2])

\* C2: after an accepted move, if the side now to move owns a piece but none
\* of its pieces has a legal destination, the game is over and the other side
\* has won.
C2_NoMovesEndsGame ==
    (Accepted /\ CellsOf(board, current_player) # {} /\ ~CanMove(current_player))
        => (game_over /\ winner = Other(current_player))

\* C3: after an accepted move, if both sides still have a piece and the side
\* now to move has a legal destination, the game is not over and there is no
\* winner.
C3_GameContinues ==
    (/\ Accepted
     /\ CellsOf(board, "RED") # {} /\ CellsOf(board, "BLACK") # {}
     /\ CanMove(current_player))
        => (~game_over /\ winner = "None")

\* C4: an accepted move leaves the side-to-move unchanged exactly when it
\* removed a piece (a capture) and the moved piece has a further capture from
\* its landing cell; every other accepted move hands the turn to the other side.
C4_TurnKeptIffFurtherCapture ==
    [][call'[1].ret =>
        /\ current_player' \in {current_player, Other(current_player)}
        /\ (current_player' = current_player) <=>
              /\ CellsOf(board', Other(current_player))
                     # CellsOf(board, Other(current_player))
              /\ CaptureDestinations(board', <<call'[1].to_row, call'[1].to_col>>) # {}]_vars

\* C4 witness: a capture has left its side to move, the capturing piece
\* having one more capture from where it landed.
C4_Witness ==
    ChainPending /\ CaptureDestinations(board, to) # {}

\* C5: while a capture chain is pending, the only calls accepted next are
\* captures by the piece that has just captured, from its landing cell.
C5_ChainContinuesFromLandingCell ==
    [][(ChainPending /\ call'[1].ret) =>
        /\ <<call'[1].from_row, call'[1].from_col>> = to
        /\ Abs(call'[1].to_row - call'[1].from_row) = 2]_vars

\* For every piece of the side to move that has a capture destination,
\* legalDestinations is exactly its set of capture destinations and holds no
\* simple-step destination.
CaptureExcludesSteps ==
    \A p \in CellsOf(board, current_player) :
        CaptureDestinations(board, p) # {} =>
            /\ legalDestinations(p[1], p[2]) = CaptureDestinations(board, p)
            /\ legalDestinations(p[1], p[2]) \cap StepDestinations(board, p) = {}

\* An accepted move of a piece that had a capture destination is a capture.
NoQuietMoveByCapturer ==
    (/\ call'[1].ret
     /\ CaptureDestinations(board, <<call'[1].from_row, call'[1].from_col>>) # {})
        => /\ Abs(call'[1].to_row - call'[1].from_row) = 2
           /\ CellsOf(board', Other(current_player))
                  # CellsOf(board, Other(current_player))

\* C6: per-piece mandatory capture: a piece of the side to move that has a
\* capture destination is offered exactly its capture destinations and no
\* simple step, and make_move accepts no quiet move from it.
C6_PieceMustCapture ==
    []CaptureExcludesSteps /\ [][NoQuietMoveByCapturer]_vars

\* C6 witness: a piece of the side to move has both a capture and a free
\* simple step, the position was reached by an accepted move.
C6_Witness ==
    /\ Accepted /\ ~game_over
    /\ \E p \in CellsOf(board, current_player) :
          CaptureDestinations(board, p) # {} /\ StepDestinations(board, p) # {}

\* C7: whenever some piece of the side to move has a capture destination,
\* legalDestinations of every piece of that side holds capture destinations
\* only.
C7_SideMustCapture ==
    (\E q \in CellsOf(board, current_player) : CaptureDestinations(board, q) # {})
        => \A p \in CellsOf(board, current_player) :
               legalDestinations(p[1], p[2]) \subseteq CaptureDestinations(board, p)

\* C8: whenever one colour has no piece on the board, the game is over and
\* the other colour is the winner (so the call that captured the last piece
\* has set both).
C8_EliminationEndsGame ==
    /\ CellsOf(board, "RED") = {} => (game_over /\ winner = "BLACK")
    /\ CellsOf(board, "BLACK") = {} => (game_over /\ winner = "RED")

\* C8 witness: an accepted capture has taken the last piece of a colour.
C8_Witness ==
    Captured /\ (CellsOf(board, "RED") = {} \/ CellsOf(board, "BLACK") = {})

\* C9: winner is set (RED or BLACK) if and only if gameOver is true.
C9_WinnerIffGameOver ==
    /\ winner \in {"None", "RED", "BLACK"}
    /\ (winner # "None") <=> game_over

\* C9 witness: a game has ended with a winner while both colours still have
\* pieces.
C9_Witness ==
    /\ game_over /\ winner \in {"RED", "BLACK"}
    /\ CellsOf(board, "RED") # {} /\ CellsOf(board, "BLACK") # {}

\* No Red man stands on row 0 and no Black man on row 7.
NoManOnItsLastRow ==
    \A col \in Rows : board[0][col] # "RED" /\ board[BOARD_SIZE - 1][col] # "BLACK"

\* Every man of the new board was that man before the call, on the same cell
\* or on the from-cell of the call: no king has turned into a man.
KingsStayKings ==
    \A p \in Cells :
        board'[p[1]][p[2]] \in {"RED", "BLACK"} =>
            \/ board[p[1]][p[2]] = board'[p[1]][p[2]]
            \/ /\ call'[1].ret
               /\ p = <<call'[1].to_row, call'[1].to_col>>
               /\ call'[1].piece = board'[p[1]][p[2]]

\* A man put down on its last row is a king when the call returns.
CrownedOnLanding ==
    (/\ Accepted
     /\ \/ call[1].piece = "RED" /\ to[1] = 0
        \/ call[1].piece = "BLACK" /\ to[1] = BOARD_SIZE - 1)
        => board[to[1]][to[2]] = (IF call[1].piece = "RED" THEN "RED_KING"
                                  ELSE "BLACK_KING")

\* C10: a Red man landing on row 0 (a Black man landing on row 7) is a king
\* of its colour when the call returns; no state holds a Red man on row 0 or
\* a Black man on row 7; and no king becomes a man again.
C10_PromotionImmediateAndIrreversible ==
    [](CrownedOnLanding /\ NoManOnItsLastRow) /\ [][KingsStayKings]_vars

\* C10 witness: a Red man has landed on row 0 and stands there as a king.
C10_Witness ==
    /\ Accepted /\ call[1].piece = "RED" /\ to[1] = 0
    /\ board[to[1]][to[2]] = "RED_KING"

\* The cell is a dark square: its row and column indices have an odd sum.
Dark(p) == (p[1] + p[2]) % 2 = 1

\* C11: every occupied cell is a dark on-board cell, and every member of
\* legalDestinations(p), for p on the board or off it, is an on-board cell
\* that is empty and dark.
C11_PiecesAndDestinationsOnDarkCells ==
    /\ DOMAIN board = Rows
    /\ \A row \in Rows : DOMAIN board[row] = Rows
    /\ \A p \in Cells : board[p[1]][p[2]] # "EMPTY" => Dark(p)
    /\ \A p \in Coord \X Coord : \A q \in legalDestinations(p[1], p[2]) :
            OnBoard(q) /\ board[q[1]][q[2]] = "EMPTY" /\ Dark(q)

\* A king in the middle of the board has a capture destination after an
\* accepted move.
C11_Witness ==
    /\ Accepted
    /\ \E p \in CellsOf(board, current_player) :
            /\ board[p[1]][p[2]] \in Kings
            /\ p[1] \in 1..6
            /\ CaptureDestinations(board, p) # {}
            /\ legalDestinations(p[1], p[2]) # {}

\* The men of one colour standing on every dark cell of the three rows, and
\* on no other cell of them.
MenOnRows(b, man, rows) ==
    \A row \in rows : \A col \in Rows :
        b[row][col] = (IF Dark(<<row, col>>) THEN man ELSE "EMPTY")

\* C12: a new game has 12 Black men on the dark cells of rows 0-2, 12 Red men
\* on the dark cells of rows 5-7, rows 3-4 empty, no kings, Red to move, and
\* is not over and has no winner.
C12_OpeningLayout ==
    ~Called =>
        /\ MenOnRows(board, "BLACK", 0..2)
        /\ MenOnRows(board, "RED", 5..7)
        /\ \A row \in 3..4 : \A col \in Rows : board[row][col] = "EMPTY"
        /\ Cardinality({p \in Cells : board[p[1]][p[2]] = "BLACK"}) = 12
        /\ Cardinality({p \in Cells : board[p[1]][p[2]] = "RED"}) = 12
        /\ \A p \in Cells : board[p[1]][p[2]] \notin Kings
        /\ current_player = "RED"
        /\ game_over = FALSE
        /\ winner = "None"

\* The game as constructed, before any call.
C12_Witness ==
    ~Called /\ ply = 0 /\ dev = 0 /\ board[0][1] = "BLACK" /\ board[7][0] = "RED"

\* The call that follows is make_move(5, 0, 4, 1).
NextCallIsFirstStep ==
    /\ call' # << >>
    /\ <<call'[1].from_row, call'[1].from_col, call'[1].to_row, call'[1].to_col>>
           = <<5, 0, 4, 1>>

\* The one move made so far is an accepted make_move(5, 0, 4, 1).
FirstStepMade ==
    /\ Accepted
    /\ ply + dev = 1
    /\ <<from[1], from[2], to[1], to[2]>> = <<5, 0, 4, 1>>

\* C14: from a new game make_move(5, 0, 4, 1) succeeds, moves the Red man
\* from (5,0) to (4,1) and makes Black the side to move; the same call made
\* again is refused and leaves the state as it was.
C14_FirstStepThenRefusedRepeat ==
    /\ [][~Called /\ NextCallIsFirstStep =>
            /\ call'[1].ret
            /\ board' = [board EXCEPT ![5][0] = "EMPTY", ![4][1] = "RED"]
            /\ board[5][0] = "RED"
            /\ current_player' = "BLACK"
            /\ game_over' = FALSE /\ winner' = "None"]_vars
    /\ [][FirstStepMade /\ NextCallIsFirstStep =>
            /\ ~call'[1].ret
            /\ UNCHANGED game]_vars

\* The repeated call has been refused on the board the first call left.
C14_Witness ==
    /\ Rejected
    /\ ply + dev = 1
    /\ <<from[1], from[2], to[1], to[2]>> = <<5, 0, 4, 1>>
    /\ board[5][0] = "EMPTY" /\ board[4][1] = "RED"
    /\ current_player = "BLACK"

\* The step is a call of get_piece or get_valid_moves.
ReadStep == read' # << >> /\ read' # read

\* The call of the step repeats the call before it.
RepeatedRead ==
    /\ read # << >>
    /\ <<read'[1].op, read'[1].row, read'[1].col>>
           = <<read[1].op, read[1].row, read[1].col>>

\* C13: get_valid_moves and get_piece are pure reads: a call of either, for
\* any position, leaves board, side-to-move, game_over and winner unchanged,
\* and a repeated call returns what the call before it returned.
C13_ReadsArePure ==
    [][ReadStep => /\ UNCHANGED game
                   /\ RepeatedRead => read'[1].ret = read[1].ret]_vars

\* get_valid_moves has been called twice in a row, in the course of a game,
\* for a piece that has a capture.
C13_Witness ==
    /\ Accepted
    /\ read # << >>
    /\ read[1].op = "get_valid_moves"
    /\ read[1].n = 2
    /\ read[1].ret # << >>
    /\ \E q \in Elems(read[1].ret) : Abs(q[1] - read[1].row) = 2

(***************************************************************************)
(* The documented move formats, read off the text character by character.  *)
(***************************************************************************)

FileLetters == <<"a", "b", "c", "d", "e", "f", "g", "h">>

FileCapitals == <<"A", "B", "C", "D", "E", "F", "G", "H">>

RankDigits == <<"1", "2", "3", "4", "5", "6", "7", "8">>

IsFile(c) == c \in Elems(FileLetters) \cup Elems(FileCapitals)

\* a=0, b=1, ..., in either case.
FileIndex(c) ==
    CHOOSE n \in 0..7 : c \in {FileLetters[n + 1], FileCapitals[n + 1]}

IsRank(c) == c \in Elems(RankDigits)

RankOf(c) == CHOOSE n \in 1..8 : RankDigits[n] = c

\* <file><rank>-<file><rank>
AlgebraicForm(t) ==
    /\ Len(t) = 5
    /\ IsFile(t[1]) /\ IsRank(t[2])
    /\ t[3] = "-"
    /\ IsFile(t[4]) /\ IsRank(t[5])

\* A non-empty run of decimal digits.
Numeral(s) == s # << >> /\ \A i \in 1..Len(s) : s[i] \in DecimalDigits

\* The numeral without the zeros at its head.
Significant(s) ==
    LET nonzero == {i \in 1..Len(s) : s[i] # "0"}
    IN  IF nonzero = {} THEN << >>
        ELSE SubSeq(s, CHOOSE i \in nonzero : \A j \in nonzero : i <= j, Len(s))

RECURSIVE DigitsValue(_)
DigitsValue(s) ==
    IF s = << >> THEN 0
    ELSE 10 * DigitsValue(SubSeq(s, 1, Len(s) - 1))
         + (CHOOSE n \in 0..9 : ord(s[Len(s)]) = ord("0") + n)

\* The integer a numeral denotes.
NumeralValue(s) == DigitsValue(Significant(s))

Positions(t, c) == {i \in 1..Len(t) : t[i] = c}

\* R,C-R,C: the text is cut into four numerals by a comma at i, a dash at j
\* and a comma at k.
NumericCut(t, i, j, k) ==
    /\ i < j /\ j < k
    /\ t[i] = "," /\ t[j] = "-" /\ t[k] = ","
    /\ Numeral(SubSeq(t, 1, i - 1)) /\ Numeral(SubSeq(t, i + 1, j - 1))
    /\ Numeral(SubSeq(t, j + 1, k - 1)) /\ Numeral(SubSeq(t, k + 1, Len(t)))

\* A cut into numerals of at most MaxStrDigits digits each.
ConvertibleCut(t, i, j, k) ==
    /\ NumericCut(t, i, j, k)
    /\ i - 1 <= MaxStrDigits /\ j - i - 1 <= MaxStrDigits
    /\ k - j - 1 <= MaxStrDigits /\ Len(t) - k <= MaxStrDigits

\* The text parsed last, where Cut cuts it into four numerals, has yielded
\* their values.
NumericParses(Cut(_, _, _, _)) ==
    \A i \in Positions(text, ","), j \in Positions(text, "-"),
       k \in Positions(text, ",") :
        Cut(text, i, j, k) =>
            parsed = <<NumeralValue(SubSeq(text, 1, i - 1)),
                       NumeralValue(SubSeq(text, i + 1, j - 1)),
                       NumeralValue(SubSeq(text, j + 1, k - 1)),
                       NumeralValue(SubSeq(text, k + 1, Len(text)))>>

\* <file><rank>-<file><rank> yields row = rank - 1 and column = letter index
\* in either letter case, and the three texts of the claim yield its tuples.
AlgebraicParses ==
    /\ AlgebraicForm(text) =>
           parsed = <<RankOf(text[2]) - 1, FileIndex(text[1]),
                      RankOf(text[5]) - 1, FileIndex(text[4])>>
    /\ text = <<"a", "6", "-", "b", "5">> => parsed = <<5, 0, 4, 1>>
    /\ text = <<"A", "6", "-", "B", "5">> => parsed = <<5, 0, 4, 1>>
    /\ text = <<"2", ",", "0", "-", "3", ",", "1">> => parsed = <<2, 0, 3, 1>>

\* C19 as stated: parse_move maps well-formed text to the documented
\* coordinates: R,C-R,C yields (R,C,R,C) as integers, whatever the numerals
\* R and C are; <file><rank>-<file><rank> yields row = rank - 1 and column =
\* letter index in either letter case.
C19_EveryNumericTextParses ==
    NumericParses(NumericCut) /\ AlgebraicParses

\* C19, amended: parse_move maps well-formed text to the documented
\* coordinates: R,C-R,C, each numeral of at most MaxStrDigits digits, yields
\* (R,C,R,C) as integers, also where the algebraic reading would yield a
\* tuple too; <file><rank>-<file><rank> yields row = rank - 1 and column =
\* letter index in either letter case; a6-b5 and A6-B5 yield (5,0,4,1) and
\* 2,0-3,1 yields (2,0,3,1).
C19_WellFormedTextParses ==
    NumericParses(ConvertibleCut) /\ AlgebraicParses

\* 22,0-33,1 has been parsed by the first try; the second would have read
\* (1, -47, 2, -46) from it.
C19_Witness ==
    /\ text = <<"2", "2", ",", "0", "-", "3", "3", ",", "1">>
    /\ ConvertibleCut(text, 3, 5, 8)
    /\ parsed = <<22, 0, 33, 1>>

Count(t, c) == Cardinality({i \in 1..Len(t) : t[i] = c})

\* The text has not one dash, or has commas but not two of them.
WrongSeparatorCount(t) == Count(t, "-") # 1 \/ Count(t, ",") \notin {0, 2}

\* The text has the separators of the numeric form and a letter in a field.
NonNumericField(t) ==
    /\ Count(t, "-") = 1 /\ Count(t, ",") = 2
    /\ \E i \in 1..Len(t) :
           ord(t[i]) \in ord("a")..ord("z") \cup ord("A")..ord("Z")

\* The text has the shape of the algebraic form with a character that is no
\* file letter or no rank digit.
OutOfRangeCharacter(t) ==
    /\ Len(t) = 5 /\ t[3] = "-"
    /\ Count(t, "-") = 1 /\ Count(t, ",") = 0
    /\ ~(IsFile(t[1]) /\ IsRank(t[2]) /\ IsFile(t[4]) /\ IsRank(t[5]))

Malformed(t) ==
    WrongSeparatorCount(t) \/ NonNumericField(t) \/ OutOfRangeCharacter(t)

\* C20: parse_move returns None for every malformed text: a wrong number of
\* '-' or ',' separators, a non-numeric field, or a single character outside
\* the file or rank range; it never returns a tuple for such a text.
C20_MalformedTextYieldsNone ==
    Malformed(text) => parsed = None

\* The side a colour plays.
SideOf(color) ==
    IF color = "red" THEN "RED" ELSE IF color = "black" THEN "BLACK" ELSE "None"

\* What a move request of the user must get from the room when it is not
\* passed to the engine.
GateReason(room, g, user_id, from_row, from_col) ==
    LET side == SideOf(get_player_color(room, user_id))
    IN  IF room.opponent_id = NoUser
        THEN "Game not started - waiting for opponent"
        ELSE IF side # g.current_player THEN "Not your turn"
        ELSE IF ~OnBoard(<<from_row, from_col>>)
                \/ g.board[from_row][from_col] \notin PiecesOf(side)
        THEN "That's not your piece"
        ELSE "None"

\* If the step is a move request to a room, the room gates it as the claim
\* says.
GatedMove ==
    LET answer == last'[1]
        room == rooms[answer.id]
        user_id == answer.user_id
        m == answer.move
        g == objs[room.game]
        reason == GateReason(room, g, user_id, m[1], m[2])
    IN  answer.op = "make_move" /\ answer.id \in DOMAIN rooms =>
            /\ answer.forwarded <=> reason = "None"
            /\ ~answer.forwarded =>
                   ~answer.ok /\ answer.error = reason /\ objs' = objs
            /\ answer.forwarded =>
                   /\ answer.ok <=> ~move_refused(g.board, g.current_player,
                                         g.game_over, m[1], m[2], m[3], m[4])
                   /\ ~answer.ok => answer.error = "Invalid move" /\ objs' = objs
            /\ answer.error = "Invalid move" => answer.forwarded
            /\ user_id \notin {room.creator_id, room.opponent_id} => objs' = objs
            /\ \A ref \in DOMAIN objs \ {room.game} : objs'[ref] = objs[ref]

\* C15: GameRoom.make_move passes a request to the engine only when an
\* opponent has joined, the acting user's colour is the side to move and the
\* from-cell holds a piece of that colour; otherwise it fails with the reason
\* of the first test that failed and the game is unchanged; "Invalid move" is
\* answered only when the engine refused the move; a user who is no
\* participant never changes the game.
C15_RoomGatesMoves ==
    [][GatedMove]_vars

\* In a room where each side has moved once, the engine has refused a move
\* the room passed to it.
C15_Witness ==
    /\ last # << >>
    /\ last[1].op = "make_move"
    /\ last[1].forwarded /\ ~last[1].ok
    /\ last[1].error = "Invalid move"
    /\ objs[rooms[last[1].id].game].board[4][1] = "RED"
    /\ objs[rooms[last[1].id].game].board[3][2] = "BLACK"

\* C16: in every room an opponent has joined, both participants have a
\* colour, one red and one black, and while the game is not over exactly one
\* of them satisfies is_player_turn.
C16_ParticipantsHaveBothColours ==
    \A room_id \in DOMAIN rooms :
        LET room == rooms[room_id]
            g == objs[room.game]
            colours == {get_player_color(room, room.creator_id),
                        get_player_color(room, room.opponent_id)}
            on_turn == {u \in {room.creator_id, room.opponent_id} :
                            is_player_turn(room, g, u)}
        IN  room.opponent_id # NoUser =>
                /\ colours = {"red", "black"}
                /\ ~g.game_over => Cardinality(on_turn) = 1

\* The game of a room or a chat, where the session exists.
SessionRefs == {rooms[r].game : r \in DOMAIN rooms} \cup {games[c] : c \in DOMAIN games}

\* No two sessions hold the same game object, and every session has one.
EachSessionOwnsItsGame ==
    /\ Cardinality(SessionRefs) = Cardinality(DOMAIN rooms) + Cardinality(DOMAIN games)
    /\ SessionRefs \subseteq DOMAIN objs

\* The step leaves the game of every session other than the one it addressed
\* as it was.
OtherSessionsUnchanged ==
    /\ \A r \in DOMAIN rooms :
           <<"room", r>> # <<last'[1].kind, last'[1].id>> =>
               /\ r \in DOMAIN rooms'
               /\ objs'[rooms'[r].game] = objs[rooms[r].game]
    /\ \A c \in DOMAIN games :
           <<"chat", c>> # <<last'[1].kind, last'[1].id>> =>
               /\ c \in DOMAIN games'
               /\ objs'[games'[c]] = objs[games[c]]

\* C17: every room and every chat owns its game, and an operation on one
\* session, accepted or refused, leaves the board, side-to-move, game_over
\* and winner of every other session unchanged.
C17_SessionsAreIsolated ==
    []EachSessionOwnsItsGame /\ [][OtherSessionsUnchanged]_vars

\* Two rooms and a chat exist, and a move has just been accepted in one of
\* them while another is still at the opening layout.
C17_Witness ==
    /\ DOMAIN rooms = {1, 2} /\ DOMAIN games = {1}
    /\ last # << >> /\ last[1].ok
    /\ last[1].op \in {"make_move", "handle_move"}
    /\ objs[rooms[1].game] # objs[rooms[2].game]
    /\ \E ref \in SessionRefs : objs[ref] = CheckersGame

\* The requests whose move has been applied or refused.
Settled == {i \in 1..Len(requests) : requests[i].pc \in {"applied", "done"}}

\* The values of <<games, objs>> that handling the requests of todo one at
\* a time, in any order, leads to from st.
RECURSIVE OneAtATime(_, _)
OneAtATime(st, todo) ==
    IF todo = {} THEN {st}
    ELSE UNION {OneAtATime(<<handled(rooms, st[1], st[2], requests[i]).games,
                             handled(rooms, st[1], st[2], requests[i]).objs>>,
                           todo \ {i}) : i \in todo}

\* C18: concurrent move requests to one session do not interleave: no
\* handler is ever suspended between reading the session's game and applying
\* the move, and the games are at every moment what handling the settled
\* requests one at a time, in some order, leads to.
C18_RequestsDoNotInterleave ==
    /\ \A i \in 1..Len(requests) : requests[i].pc # "checked"
    /\ requests # << >> => <<games, objs>> \in OneAtATime(base, Settled)

\* Two requests for the same move of the same user have both been handled:
\* one was accepted, the other refused.
C18_Witness ==
    /\ Len(requests) = 2
    /\ \A i \in 1..2 : requests[i].pc = "done"
    /\ requests[1].move = requests[2].move
    /\ requests[1].user_id = requests[2].user_id
    /\ requests[1].verdict # requests[2].verdict

\* The last call was an accepted capture by a man that landed on its
\* promotion row.
CapturedOntoLastRow ==
    /\ Captured
    /\ \/ call[1].piece = "RED" /\ to[1] = 0
       \/ call[1].piece = "BLACK" /\ to[1] = BOARD_SIZE - 1

\* C21: promotion comes before the continuation test: after a man has
\* captured onto its promotion row, if the piece on the landing cell, taken
\* as the king it now is, has a capture from there (which is a backward one),
\* the side to move is still the mover's side and legalDestinations of the
\* landing cell contains every such capture.
C21_PromotionBeforeContinuationTest ==
    (CapturedOntoLastRow /\ CaptureDestinations(board, to) # {})
        => /\ board[to[1]][to[2]] \in Kings
           /\ current_player = (IF call[1].piece = "RED" THEN "RED" ELSE "BLACK")
           /\ CaptureDestinations(board, to) \subseteq legalDestinations(to[1], to[2])

\* C21 witness: a man has captured onto its promotion row and, crowned, has
\* a capture back from the landing cell.
C21_Witness ==
    /\ CapturedOntoLastRow
    /\ CaptureDestinations(board, to) # {}

\* The number of pieces of the side on the board b.
PieceCount(b, side) == Cardinality(CellsOf(b, side))

\* The king of the colour of the piece.
KingOf(piece) == IF piece \in RedPieces THEN "RED_KING" ELSE "BLACK_KING"

\* The cell midway between two cells two diagonal steps apart.
Midway(p, q) == <<(p[1] + q[1]) \div 2, (p[2] + q[2]) \div 2>>

\* What an accepted call does to the board: the from-cell is emptied, the
\* to-cell holds the moved piece or the king of its colour, a capture
\* empties the midway cell, which held a piece of the other side, and every
\* other cell is as before; the mover's side keeps its number of pieces and
\* the other side loses one piece in a capture and none otherwise.
MoveEffect ==
    call'[1].ret =>
        LET f == <<call'[1].from_row, call'[1].from_col>>
            t == <<call'[1].to_row, call'[1].to_col>>
            piece == board[f[1]][f[2]]
            capture == Abs(t[1] - f[1]) = 2
        IN  /\ piece \in PiecesOf(current_player)
            /\ board'[f[1]][f[2]] = "EMPTY"
            /\ board'[t[1]][t[2]] \in {piece, KingOf(piece)}
            /\ \A p \in Cells \ {f, t} :
                  IF capture /\ p = Midway(f, t)
                  THEN /\ board[p[1]][p[2]] \in PiecesOf(Other(current_player))
                       /\ board'[p[1]][p[2]] = "EMPTY"
                  ELSE board'[p[1]][p[2]] = board[p[1]][p[2]]
            /\ PieceCount(board', current_player) = PieceCount(board, current_player)
            /\ PieceCount(board', Other(current_player)) =
                   PieceCount(board, Other(current_player)) - (IF capture THEN 1 ELSE 0)

\* Neither side has more than 12 pieces.
AtMostTwelve == PieceCount(board, "RED") <= 12 /\ PieceCount(board, "BLACK") <= 12

\* C22: an accepted move empties the from-cell, puts the moved piece
\* (possibly promoted) on the to-cell and changes no other cell, except that
\* a capture also empties the midway cell, which held an opponent piece; so
\* a move removes at most one piece, never one of the mover's, and no side
\* ever has more pieces than before or more than 12.
C22_MoveEffectOnBoard ==
    []AtMostTwelve /\ [][MoveEffect]_vars

\* C22 witness: a capture has been accepted; its from-cell and midway cell
\* are empty, the piece stands on the to-cell and the other side is a piece
\* short of 12.
C22_Witness ==
    /\ Captured
    /\ board[from[1]][from[2]] = "EMPTY"
    /\ board[Midway(from, to)[1]][Midway(from, to)[2]] = "EMPTY"
    /\ board[to[1]][to[2]] = call[1].piece
    /\ PieceCount(board, Other(IF call[1].piece \in RedPieces THEN "RED" ELSE "BLACK")) < 12

\* The reference set of legalDestinations for the position p, on the board
\* or off it.
ReferenceDestinations(p) ==
    IF ~OnBoard(p) THEN {}
    ELSE IF board[p[1]][p[2]] = "EMPTY" THEN {}
    ELSE IF board[p[1]][p[2]] \notin PiecesOf(current_player) THEN {}
    ELSE IF CaptureDestinations(board, p) # {} THEN CaptureDestinations(board, p)
    ELSE StepDestinations(board, p)

\* Every legal destination of a man lies ahead of it: on a lower row for a
\* Red man, on a higher row for a Black man.
MenGoForward ==
    \A p \in Cells : \A d \in legalDestinations(p[1], p[2]) :
        /\ board[p[1]][p[2]] = "RED" => d[1] < p[1]
        /\ board[p[1]][p[2]] = "BLACK" => d[1] > p[1]

\* C23: in every reachable state and for every position, legalDestinations
\* is the reference set: empty for a cell that is off the board, empty or
\* not the side to move's; otherwise, over the directions of the piece, its
\* capture destinations if it has any and else its simple steps.  A man
\* never moves or captures backward.
C23_LegalDestinationsAreTheReferenceSet ==
    /\ \A p \in Coord \X Coord :
           legalDestinations(p[1], p[2]) = ReferenceDestinations(p)
    /\ MenGoForward

\* C23 witness: after an accepted move, the side to move has a king that
\* can go to a lower and to a higher row and a man with a capture, and an
\* opponent man stands next to an empty cell it has no legal destination to.
C23_Witness ==
    /\ Accepted /\ ~game_over
    /\ \E p \in CellsOf(board, current_player) :
          /\ board[p[1]][p[2]] \in Kings
          /\ \E d, e \in legalDestinations(p[1], p[2]) : d[1] < p[1] /\ e[1] > p[1]
    /\ \E p \in CellsOf(board, current_player) :
          /\ board[p[1]][p[2]] \notin Kings
          /\ CaptureDestinations(board, p) # {}
    /\ \E p \in CellsOf(board, Other(current_player)) :
          /\ StepDestinations(board, p) # {}
          /\ legalDestinations(p[1], p[2]) = {}

\* An accepted call that leaves the side to move unchanged is a capture and
\* takes one piece of the other side off the board.
KeptTurnIsCapture ==
    (call'[1].ret /\ current_player' = current_player)
        => /\ Abs(call'[1].to_row - call'[1].from_row) = 2
           /\ PieceCount(board', Other(current_player)) =
                  PieceCount(board, Other(current_player)) - 1

\* Each of the moves in a row that have left the side to move unchanged has
\* cost the other side one of its 12 pieces; so there are at most 11 of
\* them, and the move that follows them is at most the 12th in a row.
StreakBound ==
    /\ streak + PieceCount(board, Other(current_player)) <= 12
    /\ streak + 1 <= 12

\* The side that is to move and has a move is later no longer to move, or
\* the game is over.
TurnPasses(side) ==
    (current_player = side /\ ~game_over /\ CanMove(side))
        ~> (current_player # side \/ game_over)

\* C24: no side keeps the turn for ever: an accepted move that leaves the
\* side to move unchanged is a capture that removes one opponent piece, the
\* same side makes at most 12 accepted moves in a row, and while play
\* continues the turn passes to the other side or the game is over.
C24_TurnEventuallyPasses ==
    /\ [][KeptTurnIsCapture]_vars
    /\ []StreakBound
    /\ TurnPasses("RED")
    /\ TurnPasses("BLACK")

\* C24 witness: with three pieces left and every accepted move open to the
\* side to move, a capture has left the side to move unchanged.
C24_Witness ==
    /\ ply = Len(Endgame)
    /\ Captured /\ ~game_over
    /\ streak = 1
    /\ PieceCount(board, "RED") + PieceCount(board, "BLACK") = 2
    /\ CanMove(current_player)

====
